---- MODULE Spec2Model ----
(***************************************************************************)
(* Frontend message serialization of postgres-protocol                     *)
(* (src/postgres-protocol/src/message/frontend.rs).                        *)
(*                                                                         *)
(* Representation.  A Vec<u8> / &[u8] / &str is a run-length coded byte    *)
(* string: a sequence of runs [b |-> byte, n |-> length], no run empty, no *)
(* two neighbouring runs of the same byte.  Two byte strings are the same  *)
(* bytes iff they are the same sequence of runs.  A usize is a pair        *)
(* <<hi, lo>> standing for hi * LimbBase + lo, so that lengths beyond the  *)
(* largest i32 (the case the length checks are about) are ordinary values. *)
(***************************************************************************)
EXTENDS Integers, Sequences, FiniteSets, TLC

(* ------------------------------ usize --------------------------------- *)

LimbBase == 2^30

I32Max == 2147483647

I16Max == 32767

usize(n) == <<n \div LimbBase, n % LimbBase>>

uadd(a, b) ==
  LET lo == a[2] + b[2]
  IN  <<a[1] + b[1] + (lo \div LimbBase), lo % LimbBase>>

ule(a, b) == a[1] < b[1] \/ (a[1] = b[1] /\ a[2] <= b[2])

ult(a, b) == ule(a, b) /\ a # b

\* a - b for b <= a (the code never subtracts a larger length).
usub(a, b) ==
  LET lo == a[2] - b[2]
  IN  IF lo < 0 THEN <<a[1] - b[1] - 1, lo + LimbBase>>
                ELSE <<a[1] - b[1], lo>>

\* The Int a usize stands for, defined for values up to I32Max.
uint(a) == a[1] * LimbBase + a[2]

(* --------------------------- byte strings ----------------------------- *)

Empty == << >>

Rep(b, n) == IF n = usize(0) THEN Empty ELSE <<[b |-> b, n |-> n]>>

Cat(s, t) ==
  IF s = Empty THEN t
  ELSE IF t = Empty THEN s
  ELSE IF s[Len(s)].b = t[1].b
       THEN SubSeq(s, 1, Len(s) - 1)
              \o <<[b |-> t[1].b, n |-> uadd(s[Len(s)].n, t[1].n)]>>
              \o Tail(t)
       ELSE s \o t

RECURSIVE FromSeq(_)
FromSeq(q) ==
  IF q = << >> THEN Empty
  ELSE Cat(Rep(q[1], usize(1)), FromSeq(Tail(q)))

RECURSIVE BLen(_)
BLen(s) == IF s = Empty THEN usize(0) ELSE uadd(s[1].n, BLen(Tail(s)))

\* The first k bytes of s (all of s when it is shorter).
RECURSIVE Take(_, _)
Take(s, k) ==
  IF s = Empty \/ k = usize(0) THEN Empty
  ELSE IF ule(s[1].n, k)
       THEN Cat(<<s[1]>>, Take(Tail(s), usub(k, s[1].n)))
       ELSE <<[b |-> s[1].b, n |-> k]>>

\* s without its first k bytes.
RECURSIVE Drop(_, _)
Drop(s, k) ==
  IF s = Empty \/ k = usize(0) THEN s
  ELSE IF ule(s[1].n, k)
       THEN Drop(Tail(s), usub(k, s[1].n))
       ELSE <<[b |-> s[1].b, n |-> usub(s[1].n, k)]>> \o Tail(s)

\* The n bytes of s from offset k on.
Slice(s, k, n) == Take(Drop(s, k), n)

\* The bytes of s as a plain sequence (short strings only).
RECURSIVE ToSeq(_)
ToSeq(s) ==
  IF s = Empty THEN << >>
  ELSE <<s[1].b>> \o ToSeq(Drop(s, usize(1)))

Contains(s, b) == \E i \in 1..Len(s) : s[i].b = b

\* s is a prefix of t.
IsPrefix(s, t) == Take(t, BLen(s)) = s

(* ----------------------- big-endian integers -------------------------- *)

I32BE(x) ==
  FromSeq(<<(x \div 16777216) % 256, (x \div 65536) % 256,
            (x \div 256) % 256, x % 256>>)

I16BE(x) == FromSeq(<<(x \div 256) % 256, x % 256>>)

I32FromBE(q) ==
  (IF q[1] >= 128 THEN q[1] - 256 ELSE q[1]) * 16777216
    + q[2] * 65536 + q[3] * 256 + q[4]

I16FromBE(q) ==
  (IF q[1] >= 128 THEN q[1] - 256 ELSE q[1]) * 256 + q[2]

(* ------------------------------ results ------------------------------- *)

\* io::Error::new(kind, msg)
IoError(kind, msg) == [ty |-> "io", kind |-> kind, msg |-> msg]

\* The error a caller's value serializer reports for the value idx.
ConvError(idx) == [ty |-> "conv", idx |-> idx]

\* Box<dyn Error + Sync + Send> holding e.
Boxed(e) == [ty |-> "box", inner |-> e]

Ok == [tag |-> "Ok"]

OkVal(v) == [tag |-> "Ok", val |-> v]

Err(e) == [tag |-> "Err", err |-> e]

\* A panic (unwrap() of an Err, unreachable!()) instead of a return.
Panic(m) == [tag |-> "Panic", msg |-> m]

IsOk(r) == r.tag = "Ok"

IsErr(r) == r.tag = "Err"

\* A writer's outcome: the buffer it leaves, its result, and the record of
\* the calls made to the caller's value serializer (how many, and whether
\* call number i was for value number i).
St(b, r, log) == [buf |-> b, res |-> r, log |-> log]

NoCalls == [n |-> 0, inorder |-> TRUE]

\* BindError (lines 167-170) and its two From impls (lines 172-184).
BindError_Conversion(e) == [ty |-> "BindError", variant |-> "Conversion", inner |-> e]

BindError_Serialization(e) == [ty |-> "BindError", variant |-> "Serialization", inner |-> e]

\* E::from(e) for an io::Error e, E being the error type of the caller:
\* io::Error itself, Box<dyn Error + Sync + Send>, or BindError.
From_io(E, e) ==
  CASE E = "io" -> e
    [] E = "Box" -> Boxed(e)
    [] E = "BindError" -> BindError_Serialization(e)

(* ---------------------------- primitives ------------------------------ *)

\* i32::from_usize, i16::from_usize (crate::FromUsize): Ok(x) when x fits,
\* the overflow error otherwise.
OverflowError == IoError("FramingOverflow", "value too large to transmit")

i32_from_usize(x) ==
  IF ule(x, usize(I32Max)) THEN OkVal(uint(x))
  ELSE Err(OverflowError)

i16_from_usize(x) ==
  IF ule(x, usize(I16Max)) THEN OkVal(uint(x))
  ELSE Err(OverflowError)

push(b, byte) == Cat(b, Rep(byte, usize(1)))

\* BigEndian::write_i32(&mut buf[base..], x): the 4 bytes at base rewritten.
BigEndian_write_i32(b, base, x) ==
  Cat(Cat(Take(b, base), I32BE(x)), Drop(b, uadd(base, usize(4))))

\* BigEndian::write_i16(&mut buf[base..], x): the 2 bytes at base rewritten.
BigEndian_write_i16(b, base, x) ==
  Cat(Cat(Take(b, base), I16BE(x)), Drop(b, uadd(base, usize(2))))

EmbeddedNull == IoError("InvalidInput", "string contains embedded null")

\* write_cstr that appends the bytes before it looks for a zero byte.
write_cstr_append_first(st, s) ==
  IF Contains(s, 0)
  THEN [st EXCEPT !.buf = Cat(st.buf, s), !.res = Err(EmbeddedNull)]
  ELSE [st EXCEPT !.buf = push(Cat(st.buf, s), 0), !.res = Ok]

\* WriteCStr::write_cstr for Vec<u8>.
write_cstr(st, s) ==
  IF Contains(s, 0) THEN [st EXCEPT !.res = Err(EmbeddedNull)]
  ELSE [st EXCEPT !.buf = push(Cat(st.buf, s), 0), !.res = Ok]

\* write_body, first half: the 4-byte placeholder appended at base.
write_body_reserve(b) == Cat(b, Rep(0, usize(4)))

\* write_body with the size taken without the 4 bytes of the length field.
write_body_body_only(b, r, E) ==
  LET base == BLen(b)
      size == i32_from_usize(usub(usub(BLen(r.buf), base), usize(4)))
  IN  IF ~IsOk(r.res) THEN r
      ELSE IF ~IsOk(size) THEN [r EXCEPT !.res = Err(From_io(E, size.err))]
      ELSE [r EXCEPT !.buf = BigEndian_write_i32(r.buf, base, size.val)]

\* write_body that patches the length at the start of the buffer, not at base.
write_body_patch_at_start(b, r, E) ==
  LET base == BLen(b)
      size == i32_from_usize(usub(BLen(r.buf), base))
  IN  IF ~IsOk(r.res) THEN r
      ELSE IF ~IsOk(size) THEN [r EXCEPT !.res = Err(From_io(E, size.err))]
      ELSE [r EXCEPT !.buf = BigEndian_write_i32(r.buf, usize(0), size.val)]

\* write_body that patches the length whether or not the closure failed.
write_body_patch_on_error(b, r, E) ==
  LET base == BLen(b)
      size == i32_from_usize(usub(BLen(r.buf), base))
  IN  IF ~IsOk(size)
      THEN IF IsOk(r.res) THEN [r EXCEPT !.res = Err(From_io(E, size.err))] ELSE r
      ELSE [r EXCEPT !.buf = BigEndian_write_i32(r.buf, base, size.val)]

\* write_body, second half.  b is the buffer write_body was entered with
\* (base = b.len()), r the outcome of the closure f run on
\* write_body_reserve(b), E the error type of the call.
write_body(b, r, E) ==
  LET base == BLen(b)
      size == i32_from_usize(usub(BLen(r.buf), base))
  IN  IF ~IsOk(r.res) THEN r
      ELSE IF ~IsOk(size) THEN [r EXCEPT !.res = Err(From_io(E, size.err))]
      ELSE [r EXCEPT !.buf = BigEndian_write_i32(r.buf, base, size.val)]

\* The value serializer bind() is given, applied to value number idx.
\*   "builtin": the closure of Message::serialize (lines 88-94); v is an
\*              Option<Vec<u8>>, [some |-> TRUE, v |-> bytes] or None.
\*   "caller":  a serializer of the caller; v tells what it does with this
\*              value: the bytes it appends and what it returns, IsNull::No,
\*              IsNull::Yes or a conversion error.
None == [some |-> FALSE, v |-> Empty]

Some(v) == [some |-> TRUE, v |-> v]

serializer(ser, v, idx, st) ==
  IF ser = "builtin"
  THEN IF v.some
       THEN [st EXCEPT !.buf = Cat(st.buf, v.v), !.res = OkVal("No")]
       ELSE [st EXCEPT !.res = OkVal("Yes")]
  ELSE LET log == [n |-> st.log.n + 1,
                   inorder |-> st.log.inorder /\ idx = st.log.n + 1]
       IN  [buf |-> Cat(st.buf, v.v),
            res |-> IF v.ret = "Err" THEN Err(Boxed(ConvError(idx)))
                    ELSE OkVal(v.ret),
            log |-> log]

\* crate::write_nullable(|buf| serializer(v, buf), buf), with
\* E = Box<dyn Error + Sync + Send>, the serializer's error type.
\* Its second half: r is the serializer's outcome on the buffer with the
\* 4-byte placeholder appended at base.
write_nullable_size(base, r) ==
  LET size == i32_from_usize(usub(usub(BLen(r.buf), base), usize(4)))
  IN  IF ~IsOk(r.res) THEN r
      ELSE IF r.res.val = "Yes"
           THEN [r EXCEPT !.buf = BigEndian_write_i32(r.buf, base, -1), !.res = Ok]
      ELSE IF ~IsOk(size) THEN [r EXCEPT !.res = Err(From_io("Box", size.err))]
      ELSE [r EXCEPT !.buf = BigEndian_write_i32(r.buf, base, size.val), !.res = Ok]

write_nullable(ser, v, idx, st) ==
  write_nullable_size(BLen(st.buf),
    serializer(ser, v, idx, [st EXCEPT !.buf = Cat(st.buf, Rep(0, usize(4)))]))

\* The per-item closure write_counted is given:
\*   "i16" |f, buf| buf.write_i16::<BigEndian>(f)     (lines 207, 213)
\*   "u32" |t, buf| buf.write_u32::<BigEndian>(t)     (line 342)
\*   else  |v, buf| write_nullable(|buf| serializer(v, buf), buf)  (line 210)
write_counted_item(ser, item, idx, st) ==
  CASE ser = "i16" -> [st EXCEPT !.buf = Cat(st.buf, I16BE(item)), !.res = Ok]
    [] ser = "u32" -> [st EXCEPT !.buf = Cat(st.buf, I32BE(item)), !.res = Ok]
    [] OTHER -> write_nullable(ser, item, idx, st)

\* The loop of write_counted (lines 229-232) over items[lo..hi], run on the
\* outcome st of the items before lo; it stops at the first failure.  The
\* range is halved so that the evaluation's depth stays logarithmic; the
\* items are still serialized one by one, in order.
\* Lines 230-231: r is the outcome of serializer(item, buf)?; count += 1.
write_counted_count(count, r) ==
  [buf |-> r.buf, res |-> r.res, log |-> r.log,
   count |-> IF IsOk(r.res) THEN count + 1 ELSE count]

RECURSIVE write_counted_loop(_, _, _, _, _)
write_counted_loop(items, lo, hi, ser, st) ==
  IF ~IsOk(st.res) \/ lo > hi THEN st
  ELSE IF lo = hi
       THEN write_counted_count(st.count,
              write_counted_item(ser, items[lo], lo, St(st.buf, st.res, st.log)))
       ELSE write_counted_loop(items, ((lo + hi) \div 2) + 1, hi, ser,
              write_counted_loop(items, lo, (lo + hi) \div 2, ser, st))

\* write_counted(items, serializer, buf), E the error type of the closure:
\* io::Error for "i16" and "u32", Box<dyn Error + Sync + Send> for values.
write_counted_E(ser) == IF ser \in {"i16", "u32"} THEN "io" ELSE "Box"

\* write_counted that casts the count to i16 instead of checking it.
write_counted_patch_wrapping(base, ser, r) ==
  IF ~IsOk(r.res) THEN St(r.buf, r.res, r.log)
  ELSE St(BigEndian_write_i16(r.buf, base, ((r.count + 32768) % 65536) - 32768),
          Ok, r.log)

\* Lines 233-236: r is the outcome of the loop.
write_counted_patch(base, ser, r) ==
  LET count == i16_from_usize(usize(r.count))
  IN  IF ~IsOk(r.res) THEN St(r.buf, r.res, r.log)
      ELSE IF ~IsOk(count)
           THEN St(r.buf, Err(From_io(write_counted_E(ser), count.err)), r.log)
      ELSE St(BigEndian_write_i16(r.buf, base, count.val), Ok, r.log)

write_counted(items, ser, st) ==
  write_counted_patch(BLen(st.buf), ser,
    write_counted_loop(items, 1, Len(items), ser,
      [buf |-> Cat(st.buf, Rep(0, usize(2))), res |-> Ok,
       log |-> st.log, count |-> 0]))

\* `r?; ...` in a closure: what follows runs only on an Ok outcome r.
and_cstr(r, s) == IF IsOk(r.res) THEN write_cstr(r, s) ELSE r

and_counted(r, items, ser) == IF IsOk(r.res) THEN write_counted(items, ser, r) ELSE r

and_bytes(r, bytes) == IF IsOk(r.res) THEN [r EXCEPT !.buf = Cat(r.buf, bytes)] ELSE r

\* The `?` of bind's closure (lines 205-213) on a callee's error: the
\* closure's error type is BindError, so the io::Error of write_cstr and of
\* write_counted over format codes becomes BindError::Serialization (From,
\* lines 179-184), and the Box<dyn Error + Sync + Send> of write_counted
\* over the values becomes BindError::Conversion (From, lines 172-177).
BindError_from(e) ==
  IF e.ty = "box" THEN BindError_Conversion(e) ELSE BindError_Serialization(e)

\* r is the outcome of the closure's calls up to the first that failed; its
\* error is converted as the `?` of that call converts it.
bind_try(r) ==
  IF IsErr(r.res) THEN [r EXCEPT !.res = Err(BindError_from(r.res.err))] ELSE r

\* bind that writes the statement before the portal.
bind_statement_first(portal, statement, formats, values, ser, result_formats, b) ==
  write_body(push(b, 66),
    bind_try(
      and_counted(
        and_counted(
          and_counted(
            and_cstr(write_cstr(St(write_body_reserve(push(b, 66)), Ok, NoCalls), statement),
                     portal),
            formats, "i16"),
          values, ser),
        result_formats, "i16")),
    "BindError")

bind(portal, statement, formats, values, ser, result_formats, b) ==
  write_body(push(b, 66),
    bind_try(
      and_counted(
        and_counted(
          and_counted(
            and_cstr(write_cstr(St(write_body_reserve(push(b, 66)), Ok, NoCalls), portal),
                     statement),
            formats, "i16"),
          values, ser),
        result_formats, "i16")),
    "BindError")

(* ------------------------------ encoders ------------------------------ *)

\* A fresh writer state on buffer b.
On(b) == St(b, Ok, NoCalls)

\* .unwrap() of an encoder that returns no Result.
unwrap(r) == IF IsErr(r.res) THEN [r EXCEPT !.res = Panic("unwrap")] ELSE r

\* cancel_request that writes the secret key before the process id.
cancel_request_key_first(process_id, secret_key, b) ==
  unwrap(write_body(b,
    On(Cat(Cat(Cat(write_body_reserve(b), I32BE(80877102)),
               I32BE(secret_key)), I32BE(process_id))),
    "io"))

cancel_request(process_id, secret_key, b) ==
  unwrap(write_body(b,
    On(Cat(Cat(Cat(write_body_reserve(b), I32BE(80877102)),
               I32BE(process_id)), I32BE(secret_key))),
    "io"))

close(variant, name, b) ==
  LET b0 == push(b, 67)
  IN  write_body(b0, write_cstr(On(push(write_body_reserve(b0), variant)), name), "io")

copy_data(data, b) ==
  LET b0 == push(b, 100)
  IN  write_body(b0, On(Cat(write_body_reserve(b0), data)), "io")

\* CopyData::new that takes remaining() as the length, without the 4 bytes of
\* the length field.
CopyData_new_remaining(data) ==
  LET l == uadd(BLen(data), usize(4))
  IN  IF ule(l, usize(I32Max)) THEN OkVal([buf |-> data, len |-> uint(BLen(data))])
      ELSE Err([ty |-> "io", kind |-> "InvalidInput", msg |-> "message length overflow"])

\* The overflow error of CopyData::new with a kind of its own.
MessageLengthOverflow_other_kind == IoError("Other", "message length overflow")

\* CopyData::new(buf): the CopyData { buf, len } or the overflow error.
\* remaining().checked_add(4) cannot overflow a usize at the lengths drawn.
MessageLengthOverflow == IoError("InvalidInput", "message length overflow")

CopyData_new(data) ==
  LET l == uadd(BLen(data), usize(4))
  IN  IF ule(l, usize(I32Max)) THEN OkVal([buf |-> data, len |-> uint(l)])
      ELSE Err(MessageLengthOverflow)

\* CopyData::write(self, out)
CopyData_write(self, out) == Cat(Cat(push(out, 100), I32BE(self.len)), self.buf)

copy_done(b) ==
  LET b0 == push(b, 99)
  IN  unwrap(write_body(b0, On(write_body_reserve(b0)), "io"))

copy_fail(message, b) ==
  LET b0 == push(b, 102)
  IN  write_body(b0, write_cstr(On(write_body_reserve(b0)), message), "io")

describe(variant, name, b) ==
  LET b0 == push(b, 68)
  IN  write_body(b0, write_cstr(On(push(write_body_reserve(b0), variant)), name), "io")

execute(portal, max_rows, b) ==
  LET b0 == push(b, 69)
  IN  write_body(b0,
        and_bytes(write_cstr(On(write_body_reserve(b0)), portal), I32BE(max_rows)),
        "io")

parse(name, query, param_types, b) ==
  LET b0 == push(b, 80)
  IN  write_body(b0,
        and_counted(and_cstr(write_cstr(On(write_body_reserve(b0)), name), query),
                    param_types, "u32"),
        "io")

password_message(password, b) ==
  LET b0 == push(b, 112)
  IN  write_body(b0, write_cstr(On(write_body_reserve(b0)), password), "io")

query(q, b) ==
  LET b0 == push(b, 81)
  IN  write_body(b0, write_cstr(On(write_body_reserve(b0)), q), "io")

\* Lines 364-366, on the outcome r of line 363.
sasl_initial_response_data(r, data) ==
  LET len == i32_from_usize(BLen(data))
  IN  IF ~IsOk(r.res) THEN r
      ELSE IF ~IsOk(len) THEN [r EXCEPT !.res = Err(len.err)]
      ELSE [r EXCEPT !.buf = Cat(Cat(r.buf, I32BE(len.val)), data)]

sasl_initial_response(mechanism, data, b) ==
  LET b0 == push(b, 112)
  IN  write_body(b0,
        sasl_initial_response_data(
          write_cstr(On(write_body_reserve(b0)), mechanism), data),
        "io")

sasl_response(data, b) ==
  LET b0 == push(b, 112)
  IN  write_body(b0, On(Cat(write_body_reserve(b0), data)), "io")

ssl_request(b) ==
  unwrap(write_body(b, On(Cat(write_body_reserve(b), I32BE(80877103))), "io"))

\* The loop of startup_message (lines 392-395) over the pairs from i on.
RECURSIVE startup_message_loop(_, _, _)
startup_message_loop(parameters, i, st) ==
  IF i > Len(parameters) \/ ~IsOk(st.res) THEN st
  ELSE startup_message_loop(parameters, i + 1,
         and_cstr(write_cstr(st, parameters[i][1]), parameters[i][2]))

\* startup_message without the zero byte that ends the parameters.
startup_message_no_terminator(parameters, b) ==
  write_body(b,
    startup_message_loop(parameters, 1,
      On(Cat(write_body_reserve(b), I32BE(196608)))),
    "io")

startup_message(parameters, b) ==
  write_body(b,
    and_bytes(startup_message_loop(parameters, 1,
                On(Cat(write_body_reserve(b), I32BE(196608)))),
              Rep(0, usize(1))),
    "io")

sync(b) ==
  LET b0 == push(b, 83)
  IN  unwrap(write_body(b0, On(write_body_reserve(b0)), "io"))

terminate(b) ==
  LET b0 == push(b, 88)
  IN  unwrap(write_body(b0, On(write_body_reserve(b0)), "io"))

\* Message::serialize, Bind arm (lines 76-103): the match on bind's result.
serialize_bind(r) ==
  IF IsOk(r.res) THEN r
  ELSE IF r.res.err.variant = "Conversion"
       THEN [r EXCEPT !.res = Panic("unreachable")]
  ELSE [r EXCEPT !.res = Err(r.res.err.inner)]

\* Message::serialize(&self, buf)
serialize(m, b) ==
  CASE m.kind = "Bind" ->
         serialize_bind(bind(m.portal, m.statement, m.formats, m.values,
                             "builtin", m.result_formats, b))
    [] m.kind = "CancelRequest" -> cancel_request(m.process_id, m.secret_key, b)
    [] m.kind = "Close" -> close(m.variant, m.name, b)
    [] m.kind = "CopyData" -> copy_data(m.data, b)
    [] m.kind = "CopyDone" -> copy_done(b)
    [] m.kind = "CopyFail" -> copy_fail(m.message, b)
    [] m.kind = "Describe" -> describe(m.variant, m.name, b)
    [] m.kind = "Execute" -> execute(m.portal, m.max_rows, b)
    [] m.kind = "Parse" -> parse(m.name, m.query, m.param_types, b)
    [] m.kind = "PasswordMessage" -> password_message(m.password, b)
    [] m.kind = "Query" -> query(m.query, b)
    [] m.kind = "SaslInitialResponse" -> sasl_initial_response(m.mechanism, m.data, b)
    [] m.kind = "SaslResponse" -> sasl_response(m.data, b)
    [] m.kind = "SslRequest" -> ssl_request(b)
    [] m.kind = "StartupMessage" -> startup_message(m.parameters, b)
    [] m.kind = "Sync" -> sync(b)
    [] m.kind = "Terminate" -> terminate(b)

(* --------------------------- state machine ---------------------------- *)

VARIABLES
  buf,    \* the caller's output buffer, a Vec<u8>
  pre,    \* buf as it was when the last call was made
  call,   \* the last call: [op |-> "none"], [op |-> "serialize", m |-> message]
          \* or [op |-> "bind", ...] for bind() with a serializer of the caller
  res,    \* what the last call returned (or its panic)
  log,    \* the calls the last call made to the caller's value serializer
  cd,     \* the result of the last CopyData::new, not yet written
  out,    \* the BytesMut CopyData::write appends to
  opre,   \* out as it was before the last CopyData::write
  odata   \* the payload of the last CopyData::write

vars == <<buf, pre, call, res, log, cd, out, opre, odata>>

\* An encoder is called only on a buffer of at most MaxBufLen bytes: this bounds
\* the number of messages written one after the other to the same buffer.
MaxBufLen == 6

\* The number of values of a bind() with a serializer of the caller.
MaxValues == 5

(* Inputs. *)

Str(q) == FromSeq(q)

\* "", "a", and "a\0b" with its embedded zero byte
Strs == {Empty, Str(<<97>>), Str(<<97, 0, 98>>)}

Giant(k) == Rep(120, uadd(usize(I32Max), usize(k)))

\* payloads: empty, "42", one zero byte, and payloads of I32Max - 30,
\* I32Max - 4, I32Max - 3 and I32Max + 1 bytes
Datas ==
  {Empty, Str(<<52, 50>>), Str(<<0>>),
   Rep(120, usize(I32Max - 30)), Rep(120, usize(I32Max - 4)),
   Rep(120, usize(I32Max - 3)), Giant(1)}

I32s == {0, -1, I32Max, -I32Max - 1}

Variants == {83, 0}

InitBufs == {Empty, Str(<<7>>), Str(<<255, 0, 0>>)}

BindBodies ==
  { <<<< >>, << >>, << >>>>,
    <<<<0>>, <<Some(Str(<<52, 50>>)), None>>, << >>>>,
    <<<<1, 0>>, <<None, Some(Empty), Some(Str(<<0>>))>>, <<1, -1>>>>,
    <<<< >>, <<Some(Rep(120, usize(I32Max - 30)))>>, <<0>>>>,
    <<<<0>>, <<None, Some(Giant(1))>>, <<1>>>> }

BindMsgs ==
  { [kind |-> "Bind", portal |-> p, statement |-> s, formats |-> t[1],
     values |-> t[2], result_formats |-> t[3]] :
      p \in {Empty, Str(<<97, 0, 98>>)}, s \in {Str(<<115>>), Str(<<0>>)},
      t \in BindBodies }

Oids == {<< >>, <<23>>, <<23, I32Max, 0>>}

StartupParams ==
  { << >>,
    << <<Str(<<117, 115, 101, 114>>), Str(<<97, 108, 105, 99, 101>>)>>,
       <<Str(<<100, 97, 116, 97, 98, 97, 115, 101>>), Str(<<97, 112, 112>>)>> >>,
    << <<Str(<<97>>), Empty>> >>,
    << <<Str(<<97>>), Str(<<98>>)>>, <<Str(<<99>>), Str(<<0, 100>>)>> >>,
    << <<Str(<<97, 0>>), Str(<<98>>)>> >> }

\* The values of a bind() whose serializer fails at value k (k = 0: at none):
\* it returns IsNull::Yes for value 2 and appends one byte for every other
\* value, the one it fails at included.
CallerValues(k) ==
  [i \in 1..MaxValues |->
     [ret |-> IF i = k THEN "Err" ELSE IF i = 2 THEN "Yes" ELSE "No",
      v |-> IF i # k /\ i = 2 THEN Empty ELSE Str(<<48 + i>>)]]

(* Actions. *)

Init ==
  /\ buf \in InitBufs
  /\ pre = buf
  /\ call = [op |-> "none"]
  /\ res = Ok
  /\ log = NoCalls
  /\ cd = [tag |-> "None"]
  /\ out = Empty
  /\ opre = Empty
  /\ odata = Empty

CanCall == ule(BLen(buf), usize(MaxBufLen))

\* The call returns (or panics) with outcome r.
Return(r) ==
  /\ buf' = r.buf
  /\ res' = r.res
  /\ log' = r.log

\* m.serialize(&mut buf)
Serialize(m) ==
  /\ CanCall
  /\ Return(serialize(m, buf))
  /\ pre' = buf
  /\ call' = [op |-> "serialize", m |-> m]
  /\ UNCHANGED <<cd, out, opre, odata>>

Bind == \E m \in BindMsgs : Serialize(m)

CancelRequest ==
  \E p \in I32s, k \in {1, -I32Max - 1} :
    Serialize([kind |-> "CancelRequest", process_id |-> p, secret_key |-> k])

Close ==
  \E v \in Variants, n \in Strs :
    Serialize([kind |-> "Close", variant |-> v, name |-> n])

CopyData == \E d \in Datas : Serialize([kind |-> "CopyData", data |-> d])

CopyDone == Serialize([kind |-> "CopyDone"])

CopyFail == \E s \in Strs : Serialize([kind |-> "CopyFail", message |-> s])

Describe ==
  \E v \in Variants, n \in Strs :
    Serialize([kind |-> "Describe", variant |-> v, name |-> n])

Execute ==
  \E p \in Strs, n \in {0, -1} :
    Serialize([kind |-> "Execute", portal |-> p, max_rows |-> n])

Parse ==
  \E n \in {Empty, Str(<<0>>)}, q \in {Str(<<113>>), Str(<<0>>)}, t \in Oids :
    Serialize([kind |-> "Parse", name |-> n, query |-> q, param_types |-> t])

PasswordMessage ==
  \E s \in Strs : Serialize([kind |-> "PasswordMessage", password |-> s])

Query == \E s \in Strs : Serialize([kind |-> "Query", query |-> s])

SaslInitialResponse ==
  \E s \in {Str(<<109>>), Str(<<0>>)}, d \in Datas :
    Serialize([kind |-> "SaslInitialResponse", mechanism |-> s, data |-> d])

SaslResponse == \E d \in Datas : Serialize([kind |-> "SaslResponse", data |-> d])

SslRequest == Serialize([kind |-> "SslRequest"])

StartupMessage ==
  \E ps \in StartupParams :
    Serialize([kind |-> "StartupMessage", parameters |-> ps])

Sync == Serialize([kind |-> "Sync"])

Terminate == Serialize([kind |-> "Terminate"])

\* bind(portal, statement, formats, values, serializer, result_formats, buf)
\* with a serializer of the caller that fails at value k.
BindWith ==
  \E p \in {Str(<<112>>), Str(<<0>>)}, k \in 0..MaxValues,
     rf \in {<< >>, <<1>>} :
    /\ CanCall
    /\ Return(bind(p, Empty, <<1>>, CallerValues(k), "caller", rf, buf))
    /\ pre' = buf
    /\ call' = [op |-> "bind", portal |-> p, k |-> k, result_formats |-> rf]
    /\ UNCHANGED <<cd, out, opre, odata>>

Next ==
  \/ Bind \/ CancelRequest \/ Close \/ CopyData \/ CopyDone \/ CopyFail
  \/ Describe \/ Execute \/ Parse \/ PasswordMessage \/ Query
  \/ SaslInitialResponse \/ SaslResponse \/ SslRequest \/ StartupMessage
  \/ Sync \/ Terminate \/ BindWith

Spec == Init /\ [][Next]_vars

(* The streaming CopyData beside copy_data. *)

\* CopyData::new(d)
CopyDataNew ==
  /\ \E d \in Datas : cd' = [tag |-> "Some", arg |-> d, r |-> CopyData_new(d)]
  /\ UNCHANGED <<buf, pre, call, res, log, out, opre, odata>>

\* cd.write(&mut out), for the CopyData that CopyData::new returned; write
\* takes self by value, so a CopyData is written once.
CopyDataWrite ==
  /\ cd.tag = "Some"
  /\ IsOk(cd.r)
  /\ ule(BLen(out), usize(MaxBufLen))
  /\ out' = CopyData_write(cd.r.val, out)
  /\ opre' = out
  /\ odata' = cd.arg
  /\ cd' = [tag |-> "None"]
  /\ UNCHANGED <<buf, pre, call, res, log>>

NextCopy == CopyData \/ CopyFail \/ CopyDataNew \/ CopyDataWrite

SpecCopy == Init /\ [][NextCopy]_vars

(* Counted sequences at the limit of the 16-bit count. *)

\* Sequences of up to MaxItems items are drawn beside those of I16Max and
\* I16Max + 1 items.
MaxItems == 12

Counts == (0..MaxItems) \cup {I16Max, I16Max + 1}

Long(n, x) == [i \in 1..n |-> x]

InitBig == Init /\ buf = Empty

\* The values of a BigBind: n zero-length values ("values"), n NULLs
\* ("nulls"), or MaxValues values the serializer fails at the n-th of.
BigValues(which, n) ==
  CASE which = "values" -> Long(n, [ret |-> "No", v |-> Empty])
    [] which = "nulls" -> Long(n, [ret |-> "Yes", v |-> Empty])
    [] which = "failing" -> CallerValues(n)
    [] OTHER -> << >>

\* bind() with a serializer of the caller and n format codes f, n values, or
\* n result format codes f.
BigBind ==
  \E n \in Counts,
     which \in {"formats", "values", "nulls", "failing", "result_formats"},
     f \in {0, 1} :
    /\ call.op = "none"
    /\ n > MaxItems => which = "values"
    /\ which \in {"values", "nulls", "failing"} => f = 0
    /\ which = "failing" => n \in 1..MaxValues
    /\ Return(bind(Empty, Empty,
                   IF which = "formats" THEN Long(n, f) ELSE << >>,
                   BigValues(which, n),
                   "caller",
                   IF which = "result_formats" THEN Long(n, f) ELSE << >>,
                   buf))
    /\ pre' = buf
    /\ call' = [op |-> "bigbind", which |-> which, n |-> n, f |-> f]
    /\ UNCHANGED <<cd, out, opre, odata>>

\* parse() with n parameter types t.
BigParse ==
  \E n \in Counts, t \in {0, 23} :
    /\ call.op = "none"
    /\ n > MaxItems => t = 0
    /\ Return(parse(Empty, Empty, Long(n, t), buf))
    /\ pre' = buf
    /\ call' = [op |-> "bigparse", n |-> n, t |-> t]
    /\ UNCHANGED <<cd, out, opre, odata>>

NextBig == BigBind \/ BigParse

SpecBig == InitBig /\ [][NextBig]_vars

(* Every way an encoder fails: the calls of Spec on a buffer that starts     *)
(* empty, and the calls with sequences around the limit of the count.       *)

\* Message::Bind with n NULL values, serialized on the empty buffer.
BigSerialize ==
  \E n \in {MaxItems, I16Max + 1} :
    /\ call.op = "none"
    /\ Serialize([kind |-> "Bind", portal |-> Empty, statement |-> Empty,
                  formats |-> << >>, values |-> Long(n, None),
                  result_formats |-> << >>])

NextFail == Next \/ NextBig \/ BigSerialize

SpecFail == InitBig /\ [][NextFail]_vars

(* ------------------------------- claims ------------------------------- *)

Called == call.op # "none"

\* The bytes the last call appended.
App == Drop(buf, BLen(pre))

IsSerialize(kind) == call.op = "serialize" /\ call.m.kind = kind

\* The offset of the length field in the bytes appended: 0 for the kinds that
\* have no tag byte, 1 for the others.
Tagless == IsSerialize("StartupMessage") \/ IsSerialize("SslRequest") \/ IsSerialize("CancelRequest")

LenOff == IF Tagless THEN 0 ELSE 1

\* C1: whenever an encoder succeeds, the 4 bytes after the tag byte (the first
\* 4 bytes appended, for StartupMessage, SslRequest and CancelRequest) decode as
\* the big-endian signed 32-bit number of bytes from the start of the length
\* field to the end of the bytes the call appended, whatever the buffer held.
C1_Framing ==
  (Called /\ IsOk(res)) =>
    /\ ule(usize(LenOff + 4), BLen(App))
    /\ ule(usub(BLen(App), usize(LenOff)), usize(I32Max))
    /\ I32FromBE(ToSeq(Slice(App, usize(LenOff), usize(4))))
         = uint(usub(BLen(App), usize(LenOff)))

\* A Bind with values succeeded on a buffer that was not empty.
C1_Witness ==
  /\ IsSerialize("Bind")
  /\ IsOk(res)
  /\ pre # Empty
  /\ Len(call.m.values) = 3

\* A Close whose name contains a zero byte.
CloseZero == IsSerialize("Close") /\ Contains(call.m.name, 0)

\* C2 as claimed: a Close whose name contains a zero byte fails with an
\* invalid-input error and leaves the buffer's length as it was before the call.
C2_NoBytesEmitted ==
  CloseZero =>
    /\ IsErr(res)
    /\ res.err.kind = "InvalidInput"
    /\ BLen(buf) = BLen(pre)

\* C2, amended: a Close whose name contains a zero byte fails with the
\* invalid-input error of the C-string writer, which appends none of the name's
\* bytes; the call leaves the 6 bytes appended before the name was reached: the
\* tag 'C', the 4-byte zero placeholder of the length, and the variant byte.
C2_HeaderLeft ==
  CloseZero =>
    /\ IsErr(res)
    /\ res.err.ty = "io"
    /\ res.err.kind = "InvalidInput"
    /\ res.err.msg = "string contains embedded null"
    /\ BLen(App) = usize(6)
    /\ ToSeq(App) = <<67, 0, 0, 0, 0, call.m.variant>>

\* Such a Close was made on a buffer that was not empty.
C2_Witness == CloseZero /\ pre # Empty /\ IsErr(res)

\* The innermost error of a BindError or of a boxed error.
RootErr(e) ==
  IF e.ty = "BindError"
  THEN IF e.inner.ty = "box" THEN e.inner.inner ELSE e.inner
  ELSE IF e.ty = "box" THEN e.inner ELSE e

\* n copies of the bytes x, one after the other.
RECURSIVE Times(_, _)
Times(x, n) ==
  IF n = 0 THEN Empty
  ELSE IF n = 1 THEN x
  ELSE IF n % 2 = 0 THEN Cat(Times(x, n \div 2), Times(x, n \div 2))
  ELSE Cat(Cat(Times(x, n \div 2), Times(x, n \div 2)), x)

\* The last call wrote one counted sequence of call.n like items.
IsCounted ==
  \/ call.op = "bigparse"
  \/ call.op = "bigbind" /\ call.which # "failing"

\* Where its count field lies in the bytes appended ('B' or 'P', the length,
\* two empty C-strings, and for a Bind the empty sequences before it).
CountOff ==
  IF call.op = "bigparse" THEN 7
  ELSE CASE call.which = "formats" -> 7
         [] call.which \in {"values", "nulls"} -> 9
         [] call.which = "result_formats" -> 11

\* The bytes of one item, and the bytes of the empty sequences after it.
CountedItem ==
  IF call.op = "bigparse" THEN I32BE(call.t)
  ELSE CASE call.which \in {"formats", "result_formats"} -> I16BE(call.f)
         [] call.which = "values" -> I32BE(0)
         [] call.which = "nulls" -> I32BE(-1)

CountedTrail ==
  IF call.op = "bigparse" THEN 0
  ELSE CASE call.which = "formats" -> 4
         [] call.which \in {"values", "nulls"} -> 2
         [] call.which = "result_formats" -> 0

CountedWidth == IF call.op = "bigbind" /\ call.which \in {"formats", "result_formats"} THEN 2 ELSE 4

\* The framing-overflow error as the caller of the last call is to receive it:
\* BindError::Serialization from bind, the io::Error itself from parse.
FramingOverflowReturned ==
  IF call.op = "bigbind" THEN Err(BindError_Serialization(OverflowError))
  ELSE Err(OverflowError)

\* The count field of the last call is n and the n items follow it in order.
CountedWritten ==
  /\ IsOk(res)
  /\ I16FromBE(ToSeq(Slice(App, usize(CountOff), usize(2)))) = call.n
  /\ Slice(App, usize(CountOff + 2), usize(call.n * CountedWidth))
       = Times(CountedItem, call.n)
  /\ BLen(App) = usize(CountOff + 2 + call.n * CountedWidth + CountedTrail)

\* C3: a write_counted over n items (the format codes, values or result format
\* codes of a Bind, the parameter types of a Parse) succeeds when n <= 32767,
\* and then the 2-byte big-endian count is n and is followed by exactly the n
\* items in order; when n >= 32768 the call fails with a framing-overflow
\* error and the count field is left as the zero placeholder, never wrapped.
C3_CountedLimit ==
  IsCounted =>
    IF call.n <= I16Max
    THEN CountedWritten
    ELSE /\ res = FramingOverflowReturned
         /\ ToSeq(Slice(App, usize(CountOff), usize(2))) = <<0, 0>>

\* What the code does keep of C3: the limit is 32767, the count is never
\* wrapped, and the failure at 32768 items has the overflow error at its root,
\* whatever it is wrapped in.
CountedLimitRoot ==
  IsCounted =>
    IF call.n <= I16Max
    THEN CountedWritten
    ELSE /\ IsErr(res)
         /\ RootErr(res.err) = OverflowError
         /\ ToSeq(Slice(App, usize(CountOff), usize(2))) = <<0, 0>>

\* A Bind of 32767 zero-length values succeeded.
C3_Witness ==
  /\ call.op = "bigbind"
  /\ call.which = "values"
  /\ call.n = I16Max
  /\ IsOk(res)

\* A Bind of 32768 zero-length values failed.
C3_Overflowed ==
  /\ call.op = "bigbind"
  /\ call.which = "values"
  /\ call.n = I16Max + 1
  /\ IsErr(res)

\* The last call was bind() with a serializer that fails for value number call.n.
FailingBind == call.op = "bigbind" /\ call.which = "failing"

\* bind stopped at value number call.n: the serializer was called for the
\* values 1..call.n in order and for no other, the bytes appended end with the
\* unpatched length of that value and what the serializer wrote for it (no
\* result format codes), and the error is Conversion with the serializer's error.
StoppedAtFailure ==
  /\ log = [n |-> call.n, inorder |-> TRUE]
  /\ res = Err(BindError_Conversion(Boxed(ConvError(call.n))))
  /\ ToSeq(Drop(App, usub(BLen(App), usize(5)))) = <<0, 0, 0, 0, 48 + call.n>>

\* C4: when the caller's serializer fails for the k-th value, bind stops at
\* that value (serializer called for 1..k in order, never for k+1.., result
\* format codes not written) and returns BindError::Conversion carrying the
\* serializer's error; every failure raised by the encoder itself is returned
\* as BindError::Serialization.
C4_ConversionOnlyFromSerializer ==
  /\ FailingBind => StoppedAtFailure
  /\ (call.op = "bigbind" /\ ~FailingBind /\ IsErr(res)) =>
       res.err.variant = "Serialization"

\* The part of C4 the code keeps: the stop at the failing value.
StopsAtFailingValue == FailingBind => StoppedAtFailure

\* The serializer failed for the third of five values.
C4_Witness == FailingBind /\ call.n = 3 /\ IsErr(res)

(* copy_data and the streaming CopyData *)

\* What the last CopyData::write appended to out.
OutApp == Drop(out, BLen(opre))

Written == out # opre

\* The payload's length + 4 does not fit an i32.
TooLong(data) == ult(usize(I32Max), uadd(BLen(data), usize(4)))

\* C5: CopyData::new(payload) followed by write(out) appends to out exactly the
\* bytes copy_data(payload, buf) appends to buf: the tag 'd', the big-endian
\* length = payload length + 4, the payload verbatim; and CopyData::new fails,
\* with its length-overflow error, for exactly the payloads copy_data fails
\* for: those whose length + 4 exceeds the maximum signed 32-bit value.
C5_StreamingEquivalence ==
  /\ Written =>
       /\ ToSeq(Take(OutApp, usize(1))) = <<100>>
       /\ I32FromBE(ToSeq(Slice(OutApp, usize(1), usize(4)))) = uint(BLen(odata)) + 4
       /\ Drop(OutApp, usize(5)) = odata
  /\ (Written /\ IsSerialize("CopyData") /\ odata = call.m.data) =>
       /\ IsOk(res)
       /\ App = OutApp
  /\ (IsSerialize("CopyData") /\ cd.tag = "Some" /\ cd.arg = call.m.data) =>
       /\ IsOk(res) <=> IsOk(cd.r)
       /\ IsErr(res) <=> IsErr(cd.r)
  /\ cd.tag = "Some" =>
       /\ IsErr(cd.r) <=> TooLong(cd.arg)
       /\ IsOk(cd.r) <=> ~TooLong(cd.arg)
       /\ IsErr(cd.r) => cd.r.err.msg = "message length overflow"
  /\ IsSerialize("CopyData") => (IsErr(res) <=> TooLong(call.m.data))

\* Both paths encoded the longest payload that fits, on buffers that differed.
C5_Witness ==
  /\ Written
  /\ IsSerialize("CopyData")
  /\ IsOk(res)
  /\ odata = call.m.data
  /\ BLen(odata) = usize(I32Max - 4)
  /\ pre # opre

\* The last call was a CopyFail whose message contains a zero byte.
ZeroCall == IsSerialize("CopyFail") /\ Contains(call.m.message, 0)

\* CopyData::new was last called with a payload that is too long.
OverflowCall == cd.tag = "Some" /\ TooLong(cd.arg)

\* C6 as claimed: an overflow failure and an embedded-zero failure never come
\* back to the caller as the same error kind.
C6_DistinctKinds ==
  (ZeroCall /\ IsErr(res) /\ OverflowCall /\ IsErr(cd.r)) =>
    res.err.kind # cd.r.err.kind

\* C6, amended: the embedded-zero failure of the C-string writer and the
\* length-overflow failure of CopyData::new both come back as an io::Error of
\* kind InvalidInput; they differ by their message only ("string contains
\* embedded null", "message length overflow").
C6_SameKindOtherMessage ==
  /\ ZeroCall => res = Err(IoError("InvalidInput", "string contains embedded null"))
  /\ OverflowCall => cd.r = Err(IoError("InvalidInput", "message length overflow"))
  /\ (ZeroCall /\ OverflowCall) =>
       /\ res.err.kind = cd.r.err.kind
       /\ res.err.msg # cd.r.err.msg

\* Both failures are at hand in one state.
C6_Witness == ZeroCall /\ IsErr(res) /\ OverflowCall /\ IsErr(cd.r)

(* Layouts *)

\* The format codes, each as a big-endian i16.
RECURSIVE ExpI16s(_)
ExpI16s(q) == IF q = << >> THEN Empty ELSE Cat(I16BE(Head(q)), ExpI16s(Tail(q)))

\* A value is present when it is Some (Message::Bind) or when the caller's
\* serializer returns IsNull::No for it.
Present(v) == IF "some" \in DOMAIN v THEN v.some ELSE v.ret = "No"

\* Per value: a 4-byte length and the bytes, or the 4-byte -1.
RECURSIVE ExpValues(_)
ExpValues(q) ==
  IF q = << >> THEN Empty
  ELSE Cat(IF Present(Head(q))
           THEN Cat(I32BE(uint(BLen(Head(q).v))), Head(q).v)
           ELSE Str(<<255, 255, 255, 255>>),
           ExpValues(Tail(q)))

BindBodyLayout(portal, statement, formats, values, result_formats) ==
  Cat(Cat(Cat(Cat(Cat(Cat(Cat(Cat(Cat(
    portal, Str(<<0>>)), statement), Str(<<0>>)),
    I16BE(Len(formats))), ExpI16s(formats)),
    I16BE(Len(values))), ExpValues(values)),
    I16BE(Len(result_formats))), ExpI16s(result_formats))

\* 'B', the framed length, the body.
Framed(tag, body) == Cat(Cat(Str(<<tag>>), I32BE(uint(BLen(body)) + 4)), body)

\* The Bind of the example: formats [0], values [Some("42"), None], no result
\* formats, portal "" and statement "s".
IsExampleBind ==
  /\ IsSerialize("Bind")
  /\ call.m.portal = Empty
  /\ call.m.statement = Str(<<115>>)
  /\ call.m.formats = <<0>>
  /\ call.m.values = <<Some(Str(<<52, 50>>)), None>>
  /\ call.m.result_formats = << >>

\* C7: on success a Bind is 'B', the framed length, portal and statement as
\* C-strings, a 16-bit count and the format codes as big-endian i16, a 16-bit
\* count of values and per value a 4-byte length and its bytes (present) or the
\* 4-byte -1 and no bytes (null), a 16-bit count and the result format codes;
\* formats [0], values ["42", null], result formats [] give count 1, format 0,
\* count 2, (length 2, "42"), (length -1), count 0.
C7_BindLayout ==
  /\ (IsSerialize("Bind") /\ IsOk(res)) =>
       App = Framed(66, BindBodyLayout(call.m.portal, call.m.statement,
                      call.m.formats, call.m.values, call.m.result_formats))
  /\ (call.op = "bind" /\ IsOk(res)) =>
       App = Framed(66, BindBodyLayout(call.portal, Empty, <<1>>,
                      CallerValues(call.k), call.result_formats))
  /\ IsExampleBind =>
       /\ IsOk(res)
       /\ ToSeq(App) = <<66, 0, 0, 0, 25, 0, 115, 0,
                         0, 1, 0, 0,
                         0, 2, 0, 0, 0, 2, 52, 50, 255, 255, 255, 255,
                         0, 0>>

\* The example Bind was encoded after bytes already in the buffer.
C7_Witness == IsExampleBind /\ IsOk(res) /\ pre # Empty

NoZeroParams(ps) ==
  \A i \in 1..Len(ps) : ~Contains(ps[i][1], 0) /\ ~Contains(ps[i][2], 0)

\* key, 0, value, 0 for each pair in order.
RECURSIVE ExpPairs(_)
ExpPairs(ps) ==
  IF ps = << >> THEN Empty
  ELSE Cat(Cat(Cat(Cat(Head(ps)[1], Str(<<0>>)), Head(ps)[2]), Str(<<0>>)),
           ExpPairs(Tail(ps)))

StartupBodyLayout(ps) == Cat(Cat(Str(<<0, 3, 0, 0>>), ExpPairs(ps)), Str(<<0>>))

\* C8: for pairs without embedded zero bytes, a StartupMessage is no tag, the
\* framed length, the big-endian version code 196608, key 0 value 0 for each
\* pair in the caller's order, and exactly one trailing zero byte; with no
\* parameters the body is the version code and one zero byte.
C8_StartupLayout ==
  (IsSerialize("StartupMessage") /\ NoZeroParams(call.m.parameters)) =>
    /\ IsOk(res)
    /\ App = Cat(I32BE(uint(BLen(StartupBodyLayout(call.m.parameters))) + 4),
                 StartupBodyLayout(call.m.parameters))
    /\ I32FromBE(ToSeq(Slice(App, usize(4), usize(4)))) = 196608
    /\ call.m.parameters = << >> => ToSeq(App) = <<0, 0, 0, 9, 0, 3, 0, 0, 0>>
    /\ Len(call.m.parameters) = 2 =>
         ToSeq(Drop(App, usize(8)))
           = ToSeq(call.m.parameters[1][1]) \o <<0>>
               \o ToSeq(call.m.parameters[1][2]) \o <<0>>
               \o ToSeq(call.m.parameters[2][1]) \o <<0>>
               \o ToSeq(call.m.parameters[2][2]) \o <<0, 0>>

\* user=alice, database=app was encoded after bytes already in the buffer.
C8_Witness ==
  /\ IsSerialize("StartupMessage")
  /\ Len(call.m.parameters) = 2
  /\ call.m.parameters[2][2] = Str(<<97, 112, 112>>)
  /\ IsOk(res)
  /\ pre # Empty

\* The i32 at offset k of the bytes appended.
AppI32(k) == I32FromBE(ToSeq(Slice(App, usize(k), usize(4))))

\* C9: SslRequest and CancelRequest append no tag byte. CancelRequest appends
\* exactly 16 bytes: 16, 80877102, the process id, the secret key, each a
\* big-endian i32, negative inputs included; SslRequest appends exactly 8 bytes:
\* 8, then 80877103.
C9_TaglessRequests ==
  /\ IsSerialize("CancelRequest") =>
       /\ IsOk(res)
       /\ BLen(App) = usize(16)
       /\ AppI32(0) = 16
       /\ AppI32(4) = 80877102
       /\ AppI32(8) = call.m.process_id
       /\ AppI32(12) = call.m.secret_key
  /\ IsSerialize("SslRequest") =>
       /\ IsOk(res)
       /\ ToSeq(App) = <<0, 0, 0, 8, 4, 210, 22, 47>>

\* A CancelRequest with two negative inputs that differ.
C9_Witness ==
  /\ IsSerialize("CancelRequest")
  /\ call.m.process_id = -1
  /\ call.m.secret_key = -I32Max - 1
  /\ pre # Empty

\* C10: every encoder call, successful or failed, first or later, leaves the
\* buffer at least as long as it was and leaves every byte that was in it
\* before the call as it was: what it rewrites in place (the 4-byte length and
\* the 2-byte counts) lies in the bytes the same call appended.
C10_AppendOnly ==
  Called =>
    /\ ule(BLen(pre), BLen(buf))
    /\ Take(buf, BLen(pre)) = pre

\* A failed call that appended bytes to what earlier calls had left.
C10_Witness ==
  /\ Called
  /\ IsErr(res)
  /\ pre \notin InitBufs
  /\ ult(BLen(pre), BLen(buf))

\* The last call returned an error (it did not panic).
Failed == Called /\ IsErr(res)

\* The length field of the message the last call appended.
LenField == ToSeq(Slice(App, usize(LenOff), usize(4)))

\* C11: whenever an encoder returns an error (an embedded zero byte, a count
\* overflow, a length overflow, a conversion failure passed on by bind), what
\* it appended is still in the buffer, the tag and the 4-byte length field at
\* least, and the length field of the failed message is the zero placeholder,
\* so it is not the number of bytes from the length field to the end of the
\* buffer: the framing invariant does not hold of the bytes left.
C11_NoFrameOnFailure ==
  Failed =>
    /\ Take(buf, BLen(pre)) = pre
    /\ ule(usize(LenOff + 4), BLen(App))
    /\ LenField = <<0, 0, 0, 0>>
    /\ usize(I32FromBE(LenField)) # usub(BLen(App), usize(LenOff))

\* A call failed, on a buffer that held earlier messages, after it had
\* appended more than the tag and the placeholder.
C11_Witness ==
  /\ Failed
  /\ pre # Empty
  /\ ult(usize(LenOff + 4), BLen(App))

\* The failures C11 names: an embedded zero byte, a count overflow, a length
\* overflow, a conversion failure passed on by bind.
FailedOnZeroByte == Failed /\ res.err = EmbeddedNull

FailedOnCount == Failed /\ call.op = "bigparse" /\ call.n > I16Max

FailedOnLength == Failed /\ IsSerialize("CopyData") /\ res.err = OverflowError

FailedOnConversion == Failed /\ call.op = "bind" /\ call.k = 3

\* The last call was Message::serialize and it panicked.
Panicked == call.op = "serialize" /\ res.tag = "Panic"

\* The kinds whose encoders return no Result, and the bytes each appends.
FixedSize ==
  [CancelRequest |-> 16, SslRequest |-> 8, CopyDone |-> 5, Sync |-> 5, Terminate |-> 5]

\* The encoders that return no Result append their fixed number of bytes (the
\* framed 16, 8, 4, 4, 4 after any tag) and return Ok: their unwrap() holds.
InfallibleSucceed ==
  \A k \in DOMAIN FixedSize :
    IsSerialize(k) => IsOk(res) /\ BLen(App) = usize(FixedSize[k])

\* C12: Message::serialize never panics, for any of the 17 kinds and any
\* starting buffer: the encoders that return no Result always succeed, their
\* framed sizes being fixed, and the Bind arm never meets
\* BindError::Conversion, its value serializer returning only Ok.
C12_NeverPanics ==
  /\ ~Panicked
  /\ InfallibleSucceed
  /\ IsSerialize("Bind") => (IsOk(res) \/ IsErr(res))

\* Message::serialize panicked on a Bind with 32768 NULL values.
C12_Witness ==
  /\ Panicked
  /\ IsSerialize("Bind")
  /\ res.msg = "unreachable"
  /\ Len(call.m.values) = I16Max + 1

\* Message::serialize panics on a Bind only when the count of its values or
\* the length of one of them does not fit its field.
PanicsOnlyOnOverflow ==
  Panicked =>
    /\ IsSerialize("Bind")
    /\ res.msg = "unreachable"
    /\ \/ Len(call.m.values) > I16Max
       \/ \E i \in 1..Len(call.m.values) :
            call.m.values[i].some /\ ult(usize(I32Max), BLen(call.m.values[i].v))

====
